---- MODULE Spec2Model ----
(***************************************************************************)
(* Email masking / unmasking (src/app.py and src/mask.py).                 *)
(*                                                                         *)
(* Python strings are sequences of one-character strings; offsets are      *)
(* Python's (0-based, end exclusive).  A dict is the sequence of its       *)
(* <<key, value>> items in insertion order.                                *)
(***************************************************************************)
EXTENDS Integers, Sequences, FiniteSets, TLC

VARIABLES
    variant,            \* which program runs: "app" (src/app.py) or "cli" (src/mask.py)
    store,              \* the mapping files: file name -> the text in the file
    pc,                 \* "idle", or the position inside mask_email ("resolve", "phones",
                        \* "urls", "attachments", "save"), or "unmasked" when
                        \* unmask_email has just returned
    email_text,         \* mask_email's argument
    email_id,           \* mask_email's identifier (after the md5 default)
    doc_ents,           \* nlp(email_text).ents, the recognizer's output
    entities_to_mask,   \* the candidate list
    protected_phrases,  \* the signature markers found
    idx,                \* next index of the resolver loop over entities_to_mask
    masked_spans,       \* the accepted intervals
    entity_map,         \* the dict under construction
    masked_email,       \* the working copy
    trace,              \* history of the resolver loop: what it did with each candidate
    maskRet,            \* the last value mask_email returned, with its inputs
    unmaskRet,          \* the last value unmask_email returned, with its inputs
                        \* and the store it was called on
    firstRet,           \* the first completed mask_email call, with its inputs
    id_arg,             \* mask_email's email_id argument as the caller gave it
    generated,          \* history: the placeholders the run has generated, in order
    origin,             \* history: where each character of masked_email comes from
    lastBuilt,          \* history: per identifier, the dict the latest mask_email run with
                        \* that identifier built
    calls,              \* number of mask_email calls started
    handles,            \* the mapping files open for writing, in the order of opening:
                        \* what is buffered in each, and what its run will return
    dumped              \* history: the texts json.dump produced, in the order of opening

vars == <<variant, store, pc, email_text, email_id, doc_ents, entities_to_mask,
          protected_phrases, idx, masked_spans, entity_map, masked_email, trace,
          maskRet, unmaskRet, firstRet, id_arg, generated, origin,
          lastBuilt, calls, handles, dumped>>

\* Python's None and a present value, for an optional argument or result
None == <<>>
Some(x) == <<x>>

(***************************************************************************)
(* Characters                                                              *)
(***************************************************************************)
Uppers == <<"A", "B", "C", "D", "E", "F", "G", "H", "I", "J", "K", "L", "M",
            "N", "O", "P", "Q", "R", "S", "T", "U", "V", "W", "X", "Y", "Z">>
Lowers == <<"a", "b", "c", "d", "e", "f", "g", "h", "i", "j", "k", "l", "m",
            "n", "o", "p", "q", "r", "s", "t", "u", "v", "w", "x", "y", "z">>
DigitChars == <<"0", "1", "2", "3", "4", "5", "6", "7", "8", "9">>

Range(s) == {s[i] : i \in 1..Len(s)}
UpperSet == Range(Uppers)
LowerSet == Range(Lowers)
DigitSet == Range(DigitChars)
AlphaSet == UpperSet \cup LowerSet
AlnumSet == AlphaSet \cup DigitSet
\* \s and \w of Python's re, on the characters of the model
SpaceSet == {" ", "\n", "\t", "\r"}
WordSet == AlnumSet \cup {"_"}

\* re.IGNORECASE: both cases of a letter
BothCases(c) ==
    IF \E i \in 1..26 : Uppers[i] = c \/ Lowers[i] = c
    THEN LET i == CHOOSE i \in 1..26 : Uppers[i] = c \/ Lowers[i] = c
         IN {Uppers[i], Lowers[i]}
    ELSE {c}

(***************************************************************************)
(* Python str operations                                                   *)
(***************************************************************************)
\* s[a:b] for 0 <= a, b (Python slice, clipped)
Slice(s, a, b) ==
    LET hi == IF b > Len(s) THEN Len(s) ELSE b
    IN IF a >= hi THEN <<>> ELSE SubSeq(s, a + 1, hi)

\* s.startswith(sub, i)
StartsAt(s, sub, i) ==
    /\ i + Len(sub) <= Len(s)
    /\ \A k \in 1..Len(sub) : s[i + k] = sub[k]

\* s.find(sub, start): lowest offset >= start where sub occurs, or -1
Find(s, sub, start) ==
    LET hits == {i \in start..Len(s) : StartsAt(s, sub, i)}
    IN IF hits = {} THEN -1 ELSE CHOOSE i \in hits : \A j \in hits : i <= j

\* sub in s
Contains(s, sub) == Find(s, sub, 0) # -1

\* s.replace(old, new): every non-overlapping occurrence, leftmost first
RECURSIVE ReplaceFrom(_, _, _, _)
ReplaceFrom(s, old, new, i) ==
    IF Len(old) = 0
    THEN IF i >= Len(s) THEN new ELSE new \o <<s[i + 1]>> \o ReplaceFrom(s, old, new, i + 1)
    ELSE LET j == Find(s, old, i)
         IN IF j = -1 THEN Slice(s, i, Len(s))
            ELSE Slice(s, i, j) \o new \o ReplaceFrom(s, old, new, j + Len(old))

Replace(s, old, new) == ReplaceFrom(s, old, new, 0)

\* what s.replace(old, new) does to the origins o of the characters of s: the
\* characters kept keep their origin, those of new have origin 0
RECURSIVE ReplaceOrigFrom(_, _, _, _, _)
ReplaceOrigFrom(s, o, old, new, i) ==
    LET zeros == [k \in 1..Len(new) |-> 0]
    IN IF Len(old) = 0
       THEN IF i >= Len(s) THEN zeros
            ELSE zeros \o <<o[i + 1]>> \o ReplaceOrigFrom(s, o, old, new, i + 1)
       ELSE LET j == Find(s, old, i)
            IN IF j = -1 THEN Slice(o, i, Len(o))
               ELSE Slice(o, i, j) \o zeros \o ReplaceOrigFrom(s, o, old, new, j + Len(old))

ReplaceOrig(s, o, old, new) == ReplaceOrigFrom(s, o, old, new, 0)

\* str(n) for n >= 0
RECURSIVE IntStr(_)
IntStr(n) ==
    IF n < 10 THEN <<DigitChars[n + 1]>>
    ELSE IntStr(n \div 10) \o <<DigitChars[(n % 10) + 1]>>

\* s.strip(): whitespace removed at both ends
RECURSIVE LStrip(_)
LStrip(s) == IF s # <<>> /\ Head(s) \in SpaceSet THEN LStrip(Tail(s)) ELSE s
RECURSIVE RStrip(_)
RStrip(s) ==
    IF s # <<>> /\ s[Len(s)] \in SpaceSet THEN RStrip(SubSeq(s, 1, Len(s) - 1)) ELSE s
Strip(s) == RStrip(LStrip(s))

(***************************************************************************)
(* Python re: a backtracking matcher.  A pattern is a tree; matching a     *)
(* pattern at a state [pos, caps] gives the states after each way to match *)
(* it, in the order the engine tries them (greedy first), so that the head *)
(* of the result is the match re returns.                                  *)
(***************************************************************************)
\* [...]: one character of a class
Set(S) == [t |-> "set", s |-> S]
\* [...]{m,n}, greedy; n = -1 for no upper limit ([...]*, [...]+, [...]{m,})
Run(S, m, n) == [t |-> "run", s |-> S, m |-> m, n |-> n]
\* a literal; with ic, under re.IGNORECASE
Lit(s) == [t |-> "lit", s |-> s, ic |-> FALSE]
LitI(s) == [t |-> "lit", s |-> s, ic |-> TRUE]
Cat(a, b) == [t |-> "cat", a |-> a, b |-> b]
Alt(a, b) == [t |-> "alt", a |-> a, b |-> b]
\* a?, a*, a+, greedy
Opt(a) == [t |-> "opt", a |-> a]
Star(a) == [t |-> "star", a |-> a]
Plus(a) == Cat(a, Star(a))
\* (a), the n-th capturing group
Grp(n, a) == [t |-> "grp", n |-> n, a |-> a]

\* the groups of a match not yet set
NoCaps == <<<<-1, -1>>, <<-1, -1>>>>

\* how many characters of text from offset pos on are in S
RunLen(text, pos, S) ==
    CHOOSE k \in 0..(Len(text) - pos) :
        /\ \A j \in 1..k : text[pos + j] \in S
        /\ k = Len(text) - pos \/ text[pos + k + 1] \notin S

\* whether the literal lit occurs in text at offset pos
LitAt(text, pos, lit, ic) ==
    /\ pos + Len(lit) <= Len(text)
    /\ \A k \in 1..Len(lit) :
          IF ic THEN text[pos + k] \in BothCases(lit[k]) ELSE text[pos + k] = lit[k]

RECURSIVE M(_, _, _), MAll(_, _, _)
M(re, text, st) ==
    CASE re.t = "set" ->
            IF st.pos < Len(text) /\ text[st.pos + 1] \in re.s
            THEN <<[st EXCEPT !.pos = @ + 1]>> ELSE <<>>
      [] re.t = "run" ->
            LET have == RunLen(text, st.pos, re.s)
                most == IF re.n >= 0 /\ have > re.n THEN re.n ELSE have
            IN IF most < re.m THEN <<>>
               ELSE [i \in 1..(most - re.m + 1) |-> [st EXCEPT !.pos = @ + most + 1 - i]]
      [] re.t = "lit" ->
            IF LitAt(text, st.pos, re.s, re.ic)
            THEN <<[st EXCEPT !.pos = @ + Len(re.s)]>> ELSE <<>>
      [] re.t = "cat" -> MAll(re.b, text, M(re.a, text, st))
      [] re.t = "alt" -> M(re.a, text, st) \o M(re.b, text, st)
      [] re.t = "opt" -> M(re.a, text, st) \o <<st>>
      [] re.t = "star" ->
            LET Moved(x) == x.pos > st.pos
            IN MAll(re, text, SelectSeq(M(re.a, text, st), Moved)) \o <<st>>
      [] re.t = "grp" ->
            LET r == M(re.a, text, st)
            IN [i \in 1..Len(r) |-> [r[i] EXCEPT !.caps[re.n] = <<st.pos, r[i].pos>>]]
MAll(re, text, sts) ==
    IF sts = <<>> THEN <<>> ELSE M(re, text, Head(sts)) \o MAll(re, text, Tail(sts))

\* pattern.match(text, i): the match starting at offset i, or None
MatchAt(re, text, i) ==
    LET r == M(re, text, [pos |-> i, caps |-> NoCaps])
    IN IF r = <<>> THEN None
       ELSE Some([start |-> i, end |-> r[1].pos, caps |-> r[1].caps])

\* pattern.search(text, i): the leftmost match starting at offset i or later
Search(re, text, i) ==
    LET starts == {j \in i..(Len(text) - 1) : MatchAt(re, text, j) # None}
    IN IF starts = {} THEN None
       ELSE MatchAt(re, text, CHOOSE j \in starts : \A k \in starts : j <= k)

\* re.finditer(pattern, text): the non-overlapping matches, left to right
\* (none of the patterns here matches the empty string)
RECURSIVE FindIterFrom(_, _, _)
FindIterFrom(re, text, i) ==
    LET m == Search(re, text, i)
    IN IF m = None THEN <<>> ELSE m \o FindIterFrom(re, text, m[1].end)

FindIter(re, text) == FindIterFrom(re, text, 0)
\* match.group() of every match: re.findall for a pattern without groups
FindAll(re, text) ==
    LET ms == FindIter(re, text)
    IN [i \in 1..Len(ms) |-> Slice(text, ms[i].start, ms[i].end)]

(***************************************************************************)
(* The patterns of mask_email                                              *)
(***************************************************************************)
\* [A-Z][a-z]+(?:\s+[A-Z][a-z]+)*
NamePattern ==
    Cat(Set(UpperSet), Cat(Run(LowerSet, 1, -1),
        Star(Cat(Run(SpaceSet, 1, -1), Cat(Set(UpperSet), Run(LowerSet, 1, -1))))))

\* (Mr\.|Mrs\.|Ms\.|Miss|Dr\.)
TitlePattern ==
    Alt(Lit(<<"M", "r", ".">>), Alt(Lit(<<"M", "r", "s", ".">>), Alt(Lit(<<"M", "s", ".">>),
        Alt(Lit(<<"M", "i", "s", "s">>), Lit(<<"D", "r", ".">>)))))

\* salutation_patterns: "Dear Name" and "Dear Title Name"
salutation_patterns ==
    << Cat(Lit(<<"D", "e", "a", "r">>), Cat(Run(SpaceSet, 1, -1), Grp(1, NamePattern))),
       Cat(Lit(<<"D", "e", "a", "r">>), Cat(Run(SpaceSet, 1, -1),
           Cat(Grp(1, TitlePattern), Cat(Run(SpaceSet, 1, -1), Grp(2, NamePattern))))) >>
\* len(match.groups()) of each
salutation_groups == <<1, 2>>

\* signature_markers, compiled with re.IGNORECASE
signature_markers ==
    << Cat(Alt(LitI(<<"T", "h", "a", "n", "k", "s">>),
        Alt(LitI(<<"R", "e", "g", "a", "r", "d", "s">>),
        Alt(LitI(<<"S", "i", "n", "c", "e", "r", "e", "l", "y">>),
        Alt(LitI(<<"B", "e", "s", "t", " ", "r", "e", "g", "a", "r", "d", "s">>),
        Alt(LitI(<<"Y", "o", "u", "r", "s", " ", "s", "i", "n", "c", "e", "r", "e", "l", "y">>),
        Alt(LitI(<<"C", "h", "e", "e", "r", "s">>),
        Alt(LitI(<<"B", "e", "s", "t">>),
        LitI(<<"Y", "o", "u", "r", "s", " ", "t", "r", "u", "l", "y">>)))))))),
           Opt(Set({","}))),
       LitI(<<"T", "h", "a", "n", "k", "s", " ", "&", " ", "R", "e", "g", "a", "r", "d", "s">>) >>

\* email_pattern
email_pattern ==
    Cat(Run(AlnumSet \cup {".", "_", "%", "+", "-"}, 1, -1), Cat(Set({"@"}),
        Cat(Run(AlnumSet \cup {".", "-"}, 1, -1), Cat(Set({"."}), Run(AlphaSet, 2, -1)))))

PhoneSep == Set({"-", "."} \cup SpaceSet)
\* phone_patterns
phone_patterns ==
    << Cat(Opt(Grp(1, Cat(Set({"+"}), Cat(Run(DigitSet, 1, 3), Opt(PhoneSep))))),
           Cat(Opt(Set({"("})), Cat(Run(DigitSet, 3, 4), Cat(Opt(Set({")"})),
               Cat(Opt(PhoneSep), Cat(Run(DigitSet, 3, 4),
                   Cat(Opt(PhoneSep), Run(DigitSet, 3, 4)))))))),
       Cat(Set({"+"}), Run(DigitSet, 10, 15)),
       Cat(Run(DigitSet, 3, 4), Cat(Opt(PhoneSep), Cat(Run(DigitSet, 3, 4),
           Cat(Opt(PhoneSep), Run(DigitSet, 3, 4))))) >>

HexSet == DigitSet \cup {"a", "b", "c", "d", "e", "f", "A", "B", "C", "D", "E", "F"}
\* url_pattern
url_pattern ==
    Cat(Lit(<<"h", "t", "t", "p">>), Cat(Opt(Set({"s"})), Cat(Lit(<<":", "/", "/">>),
        Plus(Alt(Set(WordSet \cup {"-", "."}),
                 Cat(Set({"%"}), Cat(Set(HexSet), Set(HexSet))))))))

\* attachment_patterns of src/mask.py, compiled with re.IGNORECASE
attachment_patterns ==
    << Cat(LitI(<<"a", "t", "t", "a", "c", "h", "e", "d", " ">>),
           Alt(LitI(<<"f", "i", "l", "e">>), Alt(LitI(<<"d", "o", "c", "u", "m", "e", "n", "t">>),
               Alt(LitI(<<"s", "p", "r", "e", "a", "d", "s", "h", "e", "e", "t">>),
                   Alt(LitI(<<"p", "r", "e", "s", "e", "n", "t", "a", "t", "i", "o", "n">>),
                       LitI(<<"p", "d", "f">>)))))),
       Cat(LitI(<<"a", "t", "t", "a", "c", "h", "m", "e", "n", "t">>), Opt(Set({"s", "S"}))),
       LitI(<<".", "p", "d", "f">>),
       Cat(LitI(<<".", "d", "o", "c">>), Opt(Set({"x", "X"}))),
       Cat(LitI(<<".", "x", "l", "s">>), Opt(Set({"x", "X"}))),
       Cat(LitI(<<".", "p", "p", "t">>), Opt(Set({"x", "X"}))) >>

\* the labels mask_email keeps from the recognizer
entity_types ==
    {"PERSON", "ORG", "PRODUCT", "GPE", "DATE", "MONEY",
     "CARDINAL", "ORDINAL", "QUANTITY", "LOC", "FAC"}

\* the characters of a label
LabelChars(l) ==
    CASE l = "PERSON" -> <<"P", "E", "R", "S", "O", "N">>
      [] l = "ORG" -> <<"O", "R", "G">>
      [] l = "PRODUCT" -> <<"P", "R", "O", "D", "U", "C", "T">>
      [] l = "GPE" -> <<"G", "P", "E">>
      [] l = "DATE" -> <<"D", "A", "T", "E">>
      [] l = "MONEY" -> <<"M", "O", "N", "E", "Y">>
      [] l = "CARDINAL" -> <<"C", "A", "R", "D", "I", "N", "A", "L">>
      [] l = "ORDINAL" -> <<"O", "R", "D", "I", "N", "A", "L">>
      [] l = "QUANTITY" -> <<"Q", "U", "A", "N", "T", "I", "T", "Y">>
      [] l = "LOC" -> <<"L", "O", "C">>
      [] l = "FAC" -> <<"F", "A", "C">>
      [] l = "EMAIL" -> <<"E", "M", "A", "I", "L">>
      [] l = "PHONE" -> <<"P", "H", "O", "N", "E">>
      [] l = "URL" -> <<"U", "R", "L">>
      [] l = "ATTACHMENT" -> <<"A", "T", "T", "A", "C", "H", "M", "E", "N", "T">>

\* f"[{label}_{n}]"
Placeholder1(l, n) == <<"[">> \o LabelChars(l) \o <<"_">> \o IntStr(n) \o <<"]">>
\* f"[{label}_{i}_{n}]"
Placeholder2(l, i, n) ==
    <<"[">> \o LabelChars(l) \o <<"_">> \o IntStr(i) \o <<"_">> \o IntStr(n) \o <<"]">>

(***************************************************************************)
(* Python dict, as the sequence of its items                               *)
(***************************************************************************)
Keys(d) == [i \in 1..Len(d) |-> d[i][1]]
HasKey(d, k) == \E i \in 1..Len(d) : d[i][1] = k
Get(d, k) == d[CHOOSE i \in 1..Len(d) : d[i][1] = k][2]
\* d[k] = v
DictSet(d, k, v) ==
    IF HasKey(d, k)
    THEN [i \in 1..Len(d) |-> IF d[i][1] = k THEN <<k, v>> ELSE d[i]]
    ELSE Append(d, <<k, v>>)

(***************************************************************************)
(* mask_email: collecting the candidates                                   *)
(* A candidate is the tuple (ent_text, start_char, end_char, label).       *)
(***************************************************************************)
Text(c) == c[1]
Start(c) == c[2]
End(c) == c[3]
Label(c) == c[4]

\* the first pass: the recognizer's entities whose label is enabled
FirstPass(ents) ==
    LET Enabled(e) == Label(e) \in entity_types IN SelectSeq(ents, Enabled)

\* "if not any(ent_text == name_text ...): entities_to_mask.append(...)"
AppendIfNew(cands, c) ==
    IF \E i \in 1..Len(cands) : Text(cands[i]) = Text(c) THEN cands ELSE Append(cands, c)

\* the candidate one salutation match gives
SalutationCandidate(text, m, groups) ==
    IF groups = 1
    THEN << Slice(text, m.caps[1][1], m.caps[1][2]), m.caps[1][1], m.caps[1][2], "PERSON" >>
    ELSE << Slice(text, m.caps[1][1], m.caps[1][2]) \o <<" ">>
                \o Slice(text, m.caps[2][1], m.caps[2][2]),
            m.caps[1][1], m.caps[2][2], "PERSON" >>

RECURSIVE SalutationMatches(_, _, _, _)
SalutationMatches(cands, text, ms, groups) ==
    IF ms = <<>> THEN cands
    ELSE SalutationMatches(AppendIfNew(cands, SalutationCandidate(text, Head(ms), groups)),
                           text, Tail(ms), groups)

\* the loop over salutation_patterns
RECURSIVE SalutationPass(_, _, _)
SalutationPass(cands, text, p) ==
    IF p > Len(salutation_patterns) THEN cands
    ELSE SalutationPass(
            SalutationMatches(cands, text, FindIter(salutation_patterns[p], text),
                              salutation_groups[p]),
            text, p + 1)

\* re.split(r'[\s\n]+', s)
RECURSIVE ReSplit(_, _)
ReSplit(s, cur) ==
    IF s = <<>> THEN <<cur>>
    ELSE IF Head(s) \in SpaceSet THEN <<cur>> \o ReSplit(LStrip(s), <<>>)
    ELSE ReSplit(Tail(s), Append(cur, Head(s)))

\* part and re.match(r'^[A-Z][a-z]*$', part)
LooksLikeName(part) ==
    /\ part # <<>>
    /\ part[1] \in UpperSet
    /\ \A i \in 2..Len(part) : part[i] \in LowerSet

\* the loop over sig_parts of one marker match
RECURSIVE SignatureParts(_, _, _, _)
SignatureParts(cands, text, parts, sig_start) ==
    IF parts = <<>> THEN cands
    ELSE LET part == Head(parts)
             part_start == Find(text, part, sig_start)
             next == IF LooksLikeName(part) /\ part_start # -1
                     THEN AppendIfNew(cands,
                              <<part, part_start, part_start + Len(part), "PERSON">>)
                     ELSE cands
         IN SignatureParts(next, text, Tail(parts), sig_start)

\* the loop over the matches of one marker: st is [cands, protected]
RECURSIVE SignatureMatches(_, _, _)
SignatureMatches(st, text, ms) ==
    IF ms = <<>> THEN st
    ELSE LET m == Head(ms)
             marker_text == Slice(text, m.start, m.end)
             sig_start == m.end
             signature_block == Strip(Slice(text, sig_start, Len(text)))
             sig_parts == ReSplit(signature_block, <<>>)
         IN SignatureMatches(
                [cands |-> SignatureParts(st.cands, text, sig_parts, sig_start),
                 protected |-> st.protected \cup {marker_text}],
                text, Tail(ms))

\* the loop over signature_markers
RECURSIVE SignaturePass(_, _, _)
SignaturePass(st, text, p) ==
    IF p > Len(signature_markers) THEN st
    ELSE SignaturePass(SignatureMatches(st, text, FindIter(signature_markers[p], text)),
                       text, p + 1)

\* InsertByLen, were the candidates left in the order of collection
InsertLast(sorted, c) == Append(sorted, c)

\* entities_to_mask.sort(key=lambda x: len(x[0]), reverse=True): stable
InsertByLen(sorted, c) ==
    LET before == {i \in 1..Len(sorted) : Len(Text(sorted[i])) >= Len(Text(c))}
        n == Cardinality(before)
    IN SubSeq(sorted, 1, n) \o <<c>> \o SubSeq(sorted, n + 1, Len(sorted))

RECURSIVE SortByLenDesc(_)
SortByLenDesc(cands) ==
    IF cands = <<>> THEN <<>>
    ELSE InsertByLen(SortByLenDesc(SubSeq(cands, 1, Len(cands) - 1)), cands[Len(cands)])

\* everything mask_email does before the resolver loop: [cands, protected]
Collect(v, text, ents) ==
    IF v = "app"
    THEN LET st == SignaturePass([cands |-> SalutationPass(FirstPass(ents), text, 1),
                                  protected |-> {}], text, 1)
         IN [cands |-> SortByLenDesc(st.cands), protected |-> st.protected]
    ELSE [cands |-> SortByLenDesc(FirstPass(ents)), protected |-> {}]

(***************************************************************************)
(* mask_email: the resolver loop and the pattern passes                    *)
(* A run's working state is [map, text, gen, orig]: entity_map,            *)
(* masked_email, the placeholders generated so far in order, and for each  *)
(* character of masked_email the position (from 1) of the character of     *)
(* email_text it is, or 0 for a character of a placeholder.                *)
(***************************************************************************)
\* Overlaps, were it to look for a span lying strictly inside the candidate only
OverlapsInside(c, spans) ==
    \E i \in 1..Len(spans) : Start(c) < spans[i][1] /\ End(c) > spans[i][2]

\* any(start_char < end and end_char > start for start, end in masked_spans)
Overlaps(c, spans) ==
    \E i \in 1..Len(spans) : Start(c) < spans[i][2] /\ End(c) > spans[i][1]

\* EntityPlaceholder, were there a counter for each label
EntityPlaceholderPerLabel(c, map) ==
    LET prefix == <<"[">> \o LabelChars(Label(c)) \o <<"_">>
        same == {i \in 1..Len(map) : StartsAt(map[i][1], prefix, 0)}
    IN Placeholder1(Label(c), Cardinality(same) + 1)

\* EntityPlaceholder, were the number not taken from the size of the map
EntityPlaceholderFirst(c, map) == Placeholder1(Label(c), 1)

\* the placeholder of an accepted candidate
EntityPlaceholder(c, map) == Placeholder1(Label(c), Len(map) + 1)

\* entity_map[placeholder] = value; masked_email = masked_email.replace(value, placeholder)
\* (gen and orig are the run's history: see ReplaceOrig)
Substitute(w, placeholder, value) ==
    [map |-> DictSet(w.map, placeholder, value),
     text |-> Replace(w.text, value, placeholder),
     gen |-> Append(w.gen, placeholder),
     orig |-> ReplaceOrig(w.text, w.orig, value, placeholder)]

\* for i, x in enumerate(found): ... f"[{label}_{i + 1}]"
RECURSIVE NumberedPass(_, _, _, _)
NumberedPass(w, found, l, i) ==
    IF i > Len(found) THEN w
    ELSE NumberedPass(Substitute(w, Placeholder1(l, i), found[i]), found, l, i + 1)

\* for j, match in enumerate(phone_matches): ... f"[PHONE_{i}_{j + 1}]"
RECURSIVE PhoneMatches(_, _, _, _)
PhoneMatches(w, found, i, j) ==
    IF j > Len(found) THEN w
    ELSE PhoneMatches(Substitute(w, Placeholder2("PHONE", i, j), found[j]), found, i, j + 1)

\* for i, pattern in enumerate(phone_patterns), p = i + 1
RECURSIVE PhonePass(_, _)
PhonePass(w, p) ==
    IF p > Len(phone_patterns) THEN w
    ELSE PhonePass(PhoneMatches(w, FindAll(phone_patterns[p], w.text), p - 1, 1), p + 1)

\* for match in re.finditer(pattern, masked_email, re.IGNORECASE):
\*     ... f"[ATTACHMENT_{i}_{len(entity_map) + 1}]"
RECURSIVE AttachmentMatches(_, _, _, _)
AttachmentMatches(w, found, i, k) ==
    IF k > Len(found) THEN w
    ELSE AttachmentMatches(
            Substitute(w, Placeholder2("ATTACHMENT", i, Len(w.map) + 1), found[k]),
            found, i, k + 1)

RECURSIVE AttachmentPass(_, _)
AttachmentPass(w, p) ==
    IF p > Len(attachment_patterns) THEN w
    ELSE AttachmentPass(
            AttachmentMatches(w, FindAll(attachment_patterns[p], w.text), p - 1, 1), p + 1)

\* the loop over emails_found
EmailPass(w) == NumberedPass(w, FindAll(email_pattern, w.text), "EMAIL", 1)
\* the loop over urls_found
UrlPass(w) == NumberedPass(w, FindAll(url_pattern, w.text), "URL", 1)

(***************************************************************************)
(* unmask_email                                                            *)
(***************************************************************************)
\* sorted(entity_map.keys(), key=len, reverse=True): stable
InsertKeyByLen(sorted, k) ==
    LET n == Cardinality({i \in 1..Len(sorted) : Len(sorted[i]) >= Len(k)})
    IN SubSeq(sorted, 1, n) \o <<k>> \o SubSeq(sorted, n + 1, Len(sorted))

RECURSIVE SortKeysByLenDesc(_)
SortKeysByLenDesc(ks) ==
    IF ks = <<>> THEN <<>>
    ELSE InsertKeyByLen(SortKeysByLenDesc(SubSeq(ks, 1, Len(ks) - 1)), ks[Len(ks)])

RECURSIVE ReplaceKeys(_, _, _)
ReplaceKeys(text, map, ks) ==
    IF ks = <<>> THEN text
    ELSE ReplaceKeys(Replace(text, Head(ks), Get(map, Head(ks))), map, Tail(ks))

\* the replacement loop of unmask_email
Restore(text, map) == ReplaceKeys(text, map, SortKeysByLenDesc(Keys(map)))

(***************************************************************************)
(* The mapping store: files named by get_mapping_filename                  *)
(***************************************************************************)
\* get_mapping_filename, were the identifier left out of the name
SharedMappingFilename(v, id) ==
    IF v = "app"
    THEN <<"m", "a", "p", "p", "i", "n", "g", "s", "/", "e", "n", "t", "i", "t", "y", "_",
           "m", "a", "p", "p", "i", "n", "g", ".", "j", "s", "o", "n">>
    ELSE <<"e", "n", "t", "i", "t", "y", "_", "m", "a", "p", "p", "i", "n", "g",
           ".", "j", "s", "o", "n">>

\* get_mapping_filename(email_id)
get_mapping_filename(v, id) ==
    IF v = "app"
    THEN <<"m", "a", "p", "p", "i", "n", "g", "s", "/", "e", "n", "t", "i", "t", "y", "_",
           "m", "a", "p", "p", "i", "n", "g", "_">> \o id \o <<".", "j", "s", "o", "n">>
    ELSE <<"e", "n", "t", "i", "t", "y", "_", "m", "a", "p", "p", "i", "n", "g", "_">>
             \o id \o <<".", "j", "s", "o", "n">>

\* a str as json.dump writes it: between quotes, with the quote, the backslash
\* and the control characters escaped (every other character of the alphabet
\* here is written as it is)
RECURSIVE JsonEscape(_)
JsonEscape(s) ==
    IF s = <<>> THEN <<>>
    ELSE (CASE Head(s) = "\"" -> <<"\\", "\"">>
            [] Head(s) = "\\" -> <<"\\", "\\">>
            [] Head(s) = "\n" -> <<"\\", "n">>
            [] Head(s) = "\t" -> <<"\\", "t">>
            [] Head(s) = "\r" -> <<"\\", "r">>
            [] OTHER -> <<Head(s)>>) \o JsonEscape(Tail(s))
JsonString(s) == <<"\"">> \o JsonEscape(s) \o <<"\"">>

\* the str json.load reads from the characters e between two quotes
RECURSIVE JsonUnescape(_)
JsonUnescape(e) ==
    IF e = <<>> THEN <<>>
    ELSE IF Head(e) = "\\" /\ Len(e) >= 2
    THEN (CASE e[2] = "n" -> <<"\n">>
            [] e[2] = "t" -> <<"\t">>
            [] e[2] = "r" -> <<"\r">>
            [] OTHER -> <<e[2]>>) \o JsonUnescape(SubSeq(e, 3, Len(e)))
    ELSE <<Head(e)>> \o JsonUnescape(Tail(e))
JsonParseString(q) == JsonUnescape(SubSeq(q, 2, Len(q) - 1))

\* json.dump(entity_map, f, indent=4): the text written, "{}" for the empty dict,
\* else one member on a line of its own, indented by four spaces
RECURSIVE JsonMembersText(_, _)
JsonMembersText(map, i) ==
    IF i > Len(map) THEN <<>>
    ELSE <<" ", " ", " ", " ">> \o JsonString(map[i][1]) \o <<":", " ">>
            \o JsonString(map[i][2])
            \o (IF i < Len(map) THEN <<",", "\n">> ELSE <<"\n">>)
            \o JsonMembersText(map, i + 1)
JsonDump(map) ==
    IF map = <<>> THEN <<"{", "}">>
    ELSE <<"{", "\n">> \o JsonMembersText(map, 1) \o <<"}">>

\* json.load(f) scans the text read.  Offsets count the characters consumed;
\* -1 stands for a scan that has failed, and stays -1 through the next scans.
\* the offset after the whitespace at offset i
JsonSkip(t, i) ==
    IF i = -1 THEN -1
    ELSE IF i >= Len(t) \/ t[i + 1] \notin SpaceSet THEN i
    ELSE CHOOSE j \in i..Len(t) :
            /\ \A k \in (i + 1)..j : t[k] \in SpaceSet
            /\ (j = Len(t) \/ t[j + 1] \notin SpaceSet)
\* the character at offset i is c
JsonAt(t, i, c) == i >= 0 /\ i < Len(t) /\ t[i + 1] = c
\* the offset after the colon at offset i
JsonColon(t, i) == IF JsonAt(t, i, ":") THEN i + 1 ELSE -1
\* the number of backslashes right before the character at position k
JsonSlashes(t, k) ==
    IF k = 1 \/ t[k - 1] # "\\" THEN 0
    ELSE Cardinality({n \in 1..(k - 1) : \A q \in (k - n)..(k - 1) : t[q] = "\\"})
\* the positions of the quotes after offset i + 1 that are not escaped
JsonQuotes(t, i) ==
    {k \in (i + 2)..Len(t) : t[k] = "\"" /\ JsonSlashes(t, k) % 2 = 0}
\* the string from offset i to position e holds no control character
JsonStringTo(t, i, e) ==
    IF \E k \in (i + 2)..(e - 1) : t[k] \in {"\n", "\t", "\r"} THEN -1 ELSE e
\* the offset after the string that starts at offset i, -1 if there is none: it
\* ends with the first quote that is not escaped
JsonStringEnd(t, i) ==
    IF ~JsonAt(t, i, "\"") THEN -1
    ELSE LET quotes == JsonQuotes(t, i)
         IN IF quotes = {} THEN -1
            ELSE JsonStringTo(t, i, CHOOSE k \in quotes : \A q \in quotes : k <= q)
\* the members from offset i, after "{" or ",": [ok, members, pos]; the values
\* of the files written here are strings, any other value is not accepted
RECURSIVE JsonMembers(_, _, _)
JsonMembers(t, i, acc) ==
    LET k1 == JsonSkip(t, i)
        k2 == JsonStringEnd(t, k1)
        v1 == JsonSkip(t, JsonColon(t, JsonSkip(t, k2)))
        v2 == JsonStringEnd(t, v1)
        n == JsonSkip(t, v2)
    IN IF n = -1 THEN [ok |-> FALSE, members |-> <<>>, pos |-> i]
       ELSE IF JsonAt(t, n, ",")
       THEN JsonMembers(t, n + 1, Append(acc, <<Slice(t, k1, k2), Slice(t, v1, v2)>>))
       ELSE IF JsonAt(t, n, "}")
       THEN [ok |-> TRUE, pos |-> n + 1,
             members |-> Append(acc, <<Slice(t, k1, k2), Slice(t, v1, v2)>>)]
       ELSE [ok |-> FALSE, members |-> <<>>, pos |-> n]
\* the object the whole text is: [ok, members], not ok where json.load raises
\* JSONDecodeError
JsonParse(t) ==
    LET i == JsonSkip(t, 0)
        j == IF JsonAt(t, i, "{") THEN JsonSkip(t, i + 1) ELSE -1
        r == IF j = -1 THEN [ok |-> FALSE, members |-> <<>>, pos |-> 0]
             ELSE IF JsonAt(t, j, "}") THEN [ok |-> TRUE, members |-> <<>>, pos |-> j + 1]
             ELSE JsonMembers(t, j, <<>>)
    IN [ok |-> r.ok /\ JsonSkip(t, r.pos) = Len(t), members |-> r.members]
JsonValid(t) == JsonParse(t).ok

\* json.load(f): the dict of the members read, a repeated key keeping its last value
RECURSIVE JsonLoadFrom(_, _)
JsonLoadFrom(items, d) ==
    IF items = <<>> THEN d
    ELSE JsonLoadFrom(Tail(items),
                      DictSet(d, JsonParseString(Head(items)[1]),
                              JsonParseString(Head(items)[2])))
JsonLoad(t) == JsonLoadFrom(JsonParse(t).members, <<>>)

FileExists(st, name) == name \in DOMAIN st
\* with open(name, "w") as f: json.dump(map, f)
WriteFile(st, name, map) ==
    [n \in DOMAIN st \cup {name} |-> IF n = name THEN JsonDump(map) ELSE st[n]]

\* f"Error: Mapping file '{mapping_filename}' not found."
MappingNotFoundText(name) ==
    <<"E", "r", "r", "o", "r", ":", " ", "M", "a", "p", "p", "i", "n", "g", " ",
      "f", "i", "l", "e", " ", "'">> \o name \o
    <<"'", " ", "n", "o", "t", " ", "f", "o", "u", "n", "d", ".">>

\* "Error: No entity mapping provided or found."
NoMappingText ==
    <<"E", "r", "r", "o", "r", ":", " ", "N", "o", " ", "e", "n", "t", "i", "t", "y", " ",
      "m", "a", "p", "p", "i", "n", "g", " ", "p", "r", "o", "v", "i", "d", "e", "d", " ",
      "o", "r", " ", "f", "o", "u", "n", "d", ".">>

(***************************************************************************)
(* Inputs                                                                  *)
(***************************************************************************)
MaxEnts == 2        \* entities the recognizer returns for one document
MaxCalls == 2       \* mask_email calls in one behaviour of SpecSeq

\* the documents masked
\* ''
DocEmpty == <<>>
\* 'Dear Al\nBo'
DocDear == <<"D", "e", "a", "r", " ", "A", "l", "\n", "B", "o">>
\* 'Dear Dr. Bo'
DocTitle == <<"D", "e", "a", "r", " ", "D", "r", ".", " ", "B", "o">>
\* 'Best, Bob'
DocBest == <<"B", "e", "s", "t", ",", " ", "B", "o", "b">>
\* 'Thanks Best regards'
DocThanks ==
    <<"T", "h", "a", "n", "k", "s", " ", "B", "e",
      "s", "t", " ", "r", "e", "g", "a", "r", "d", "s">>
\* '[PERSON_1] Bob'
DocBracket == <<"[", "P", "E", "R", "S", "O", "N", "_", "1", "]", " ", "B", "o", "b">>
\* 'a@b.cc a@b.cc'
DocEmails == <<"a", "@", "b", ".", "c", "c", " ", "a", "@", "b", ".", "c", "c">>
\* 'Al a@b.cc'
DocNameEmail == <<"A", "l", " ", "a", "@", "b", ".", "c", "c">>
\* '123456789'
DocPhone == <<"1", "2", "3", "4", "5", "6", "7", "8", "9">>
\* 'http://x.y'
DocUrl == <<"h", "t", "t", "p", ":", "/", "/", "x", ".", "y">>
\* 'attached file'
DocAttached == <<"a", "t", "t", "a", "c", "h", "e", "d", " ", "f", "i", "l", "e">>
\* 'Dear Dr.  Bo'
DocTitleWide == <<"D", "e", "a", "r", " ", "D", "r", ".", " ", " ", "B", "o">>
DocList ==
    <<DocEmpty, DocDear, DocTitle, DocBest,
      DocThanks, DocBracket, DocEmails, DocNameEmail,
      DocPhone, DocUrl, DocAttached, DocTitleWide>>
Docs == Range(DocList)

\* hashlib.md5(email_text.encode()).hexdigest()[:8], tabulated for Docs
Md5Hex8(text) ==
    CASE text = DocEmpty -> <<"d", "4", "1", "d", "8", "c", "d", "9">>
      [] text = DocDear -> <<"0", "5", "c", "d", "2", "e", "4", "d">>
      [] text = DocTitle -> <<"4", "b", "3", "4", "4", "0", "f", "0">>
      [] text = DocBest -> <<"4", "9", "4", "3", "1", "0", "a", "d">>
      [] text = DocThanks -> <<"4", "5", "0", "f", "0", "1", "b", "2">>
      [] text = DocBracket -> <<"b", "b", "7", "c", "3", "d", "e", "3">>
      [] text = DocEmails -> <<"e", "5", "b", "b", "5", "6", "c", "a">>
      [] text = DocNameEmail -> <<"4", "8", "e", "9", "c", "c", "9", "4">>
      [] text = DocPhone -> <<"2", "5", "f", "9", "e", "7", "9", "4">>
      [] text = DocUrl -> <<"f", "6", "8", "4", "6", "a", "6", "5">>
      [] text = DocAttached -> <<"8", "0", "8", "b", "0", "f", "3", "6">>
      [] text = DocTitleWide -> <<"4", "7", "f", "4", "1", "f", "8", "e">>

\* identifiers a caller supplies
Ids == {<<"a">>, <<"b">>}
IdArgs == {None} \cup {Some(id) : id \in Ids}

\* labels the recognizer gives: two that mask_email keeps, one it drops
RecLabels == {"PERSON", "ORG", "TIME"}

\* The recognizer returns non-overlapping spans of whole tokens in document
\* order, each with the text of its interval and with a letter or digit in it.
\* A token is a run of non-space characters, with the punctuation at its ends
\* split off.
InWord(text, i) == text[i] \notin SpaceSet
\* the characters i..j of text (1-based) are all punctuation
AllPunct(text, i, j) == \A k \in i..j : text[k] \notin WordSet /\ text[k] \notin SpaceSet
\* the offsets of the first and after the last character of the word around offset i
WordStart(text, i) ==
    CHOOSE a \in 0..i : (\A k \in (a + 1)..(i + 1) : InWord(text, k))
                        /\ (a = 0 \/ ~InWord(text, a))
WordEnd(text, j) ==
    CHOOSE b \in j..Len(text) : (\A k \in j..b : InWord(text, k))
                                /\ (b = Len(text) \/ ~InWord(text, b + 1))
\* a token may start at offset i, and end before offset j
TokenStart(text, i) ==
    /\ InWord(text, i + 1)
    /\ \/ AllPunct(text, WordStart(text, i) + 1, i)
       \/ AllPunct(text, i + 1, WordEnd(text, i + 1))
TokenEnd(text, j) ==
    /\ InWord(text, j)
    /\ \/ AllPunct(text, j + 1, WordEnd(text, j))
       \/ AllPunct(text, WordStart(text, j - 1) + 1, j)
RecSpans(text, labels) ==
    { <<Slice(text, x[1], x[2]), x[1], x[2], x[3]>> :
        x \in { y \in (0..Len(text)) \X (1..Len(text)) \X labels :
                  /\ y[1] < y[2] /\ TokenStart(text, y[1]) /\ TokenEnd(text, y[2])
                  /\ \E k \in (y[1] + 1)..y[2] : text[k] \in AlnumSet } }
RECURSIVE RecOutputsOfLen(_, _, _)
RecOutputsOfLen(text, labels, n) ==
    IF n = 0 THEN {<<>>}
    ELSE { Append(x[1], x[2]) :
             x \in { y \in RecOutputsOfLen(text, labels, n - 1) \X RecSpans(text, labels) :
                       y[1] = <<>> \/ End(y[1][Len(y[1])]) <= Start(y[2]) } }
\* the outputs with at most n entities
RecOutputs(text, labels, n) == UNION { RecOutputsOfLen(text, labels, k) : k \in 0..n }

(***************************************************************************)
(* The state machine                                                       *)
(***************************************************************************)
Init ==
    /\ variant \in {"app", "cli"}
    /\ store = [n \in {} |-> <<>>]
    /\ pc = "idle"
    /\ email_text = <<>>
    /\ email_id = <<>>
    /\ id_arg = None
    /\ doc_ents = <<>>
    /\ entities_to_mask = <<>>
    /\ protected_phrases = {}
    /\ idx = 1
    /\ masked_spans = <<>>
    /\ entity_map = <<>>
    /\ masked_email = <<>>
    /\ trace = <<>>
    /\ generated = <<>>
    /\ origin = <<>>
    /\ maskRet = None
    /\ unmaskRet = None
    /\ firstRet = None
    /\ lastBuilt = [i \in {} |-> <<>>]
    /\ calls = 0
    /\ handles = <<>>
    /\ dumped = <<>>

\* MaskStart, were entity_map a dict that outlives the call
MaskStartKeepingMap(text, id, ents) ==
    /\ pc = "idle"
    /\ LET c == Collect(variant, text, ents)
       IN /\ entities_to_mask' = c.cands
          /\ protected_phrases' = c.protected
    /\ email_text' = text
    /\ doc_ents' = ents
    /\ id_arg' = id
    /\ email_id' = IF id = None THEN Md5Hex8(text) ELSE id[1]
    /\ entity_map' = entity_map
    /\ masked_email' = text
    /\ masked_spans' = <<>>
    /\ idx' = 1
    /\ trace' = <<>>
    /\ generated' = <<>>
    /\ origin' = [k \in 1..Len(text) |-> k]
    /\ pc' = "resolve"
    /\ calls' = calls + 1
    /\ UNCHANGED <<variant, store, maskRet, unmaskRet, firstRet, lastBuilt>>
    /\ UNCHANGED <<handles, dumped>>

\* mask_email(email_text, email_id) up to the resolver loop: the recognizer runs,
\* the identifier gets its default, the candidates are collected and sorted
MaskStart(text, id, ents) ==
    /\ pc = "idle"
    /\ LET c == Collect(variant, text, ents)
       IN /\ entities_to_mask' = c.cands
          /\ protected_phrases' = c.protected
    /\ email_text' = text
    /\ doc_ents' = ents
    /\ id_arg' = id
    /\ email_id' = IF id = None THEN Md5Hex8(text) ELSE id[1]
    /\ entity_map' = <<>>
    /\ masked_email' = text
    /\ masked_spans' = <<>>
    /\ idx' = 1
    /\ trace' = <<>>
    /\ generated' = <<>>
    /\ origin' = [k \in 1..Len(text) |-> k]
    /\ pc' = "resolve"
    /\ calls' = calls + 1
    /\ UNCHANGED <<variant, store, maskRet, unmaskRet, firstRet, lastBuilt>>
    /\ UNCHANGED <<handles, dumped>>

\* the working state of the run, and its update
Work == [map |-> entity_map, text |-> masked_email, gen |-> generated, orig |-> origin]
SetWork(w) ==
    /\ entity_map' = w.map
    /\ masked_email' = w.text
    /\ generated' = w.gen
    /\ origin' = w.orig

\* what one iteration of "for ent_text, start_char, end_char, label in
\* entities_to_mask" does with candidate c
ResolveOutcome(v, c, spans, protected) ==
    IF Overlaps(c, spans) THEN "overlap"
    ELSE IF v = "app" /\ Text(c) \in protected THEN "protected"
    ELSE "accepted"

\* one iteration of the resolver loop
ResolveStep ==
    /\ pc = "resolve"
    /\ idx <= Len(entities_to_mask)
    /\ LET c == entities_to_mask[idx]
           outcome == ResolveOutcome(variant, c, masked_spans, protected_phrases)
           w == Substitute(Work, EntityPlaceholder(c, entity_map), Text(c))
       IN /\ trace' = Append(trace, [cand |-> c, outcome |-> outcome])
          /\ IF outcome = "accepted"
             THEN /\ SetWork(w)
                  /\ masked_spans' = Append(masked_spans, <<Start(c), End(c)>>)
             ELSE UNCHANGED <<entity_map, masked_email, generated, origin, masked_spans>>
    /\ idx' = idx + 1
    /\ UNCHANGED <<variant, store, pc, email_text, email_id, id_arg, doc_ents,
                   entities_to_mask, protected_phrases, maskRet, unmaskRet, firstRet,
                   lastBuilt, calls>>
    /\ UNCHANGED <<handles, dumped>>

\* what mask_email returns: (masked_email, email_id, entity_map, masking_stats) in
\* src/app.py (the statistics are left out), (masked_email, email_id) in src/mask.py
MaskReturn(v, text, id, map) == IF v = "app" THEN <<text, id, map>> ELSE <<text, id>>

\* the resolver loop is over: "Mask email addresses"
EmailStep ==
    /\ pc = "resolve"
    /\ idx > Len(entities_to_mask)
    /\ SetWork(EmailPass(Work))
    /\ pc' = "phones"
    /\ UNCHANGED <<variant, store, email_text, email_id, id_arg, doc_ents, entities_to_mask,
                   protected_phrases, idx, masked_spans, trace, maskRet, unmaskRet,
                   firstRet, lastBuilt, calls>>
    /\ UNCHANGED <<handles, dumped>>

\* "Mask phone numbers"
PhoneStep ==
    /\ pc = "phones"
    /\ SetWork(PhonePass(Work, 1))
    /\ pc' = "urls"
    /\ UNCHANGED <<variant, store, email_text, email_id, id_arg, doc_ents, entities_to_mask,
                   protected_phrases, idx, masked_spans, trace, maskRet, unmaskRet,
                   firstRet, lastBuilt, calls>>
    /\ UNCHANGED <<handles, dumped>>

\* "Mask URLs"
UrlStep ==
    /\ pc = "urls"
    /\ SetWork(UrlPass(Work))
    /\ pc' = IF variant = "cli" THEN "attachments" ELSE "save"
    /\ UNCHANGED <<variant, store, email_text, email_id, id_arg, doc_ents, entities_to_mask,
                   protected_phrases, idx, masked_spans, trace, maskRet, unmaskRet,
                   firstRet, lastBuilt, calls>>
    /\ UNCHANGED <<handles, dumped>>

\* "Mask file attachments references" (src/mask.py only)
AttachmentStep ==
    /\ pc = "attachments"
    /\ SetWork(AttachmentPass(Work, 1))
    /\ pc' = "save"
    /\ UNCHANGED <<variant, store, email_text, email_id, id_arg, doc_ents, entities_to_mask,
                   protected_phrases, idx, masked_spans, trace, maskRet, unmaskRet,
                   firstRet, lastBuilt, calls>>
    /\ UNCHANGED <<handles, dumped>>

\* "Save mapping with unique filename", and the return
SaveStep ==
    /\ pc = "save"
    /\ LET name == get_mapping_filename(variant, email_id)
           ret == [args |-> <<email_text, id_arg, doc_ents>>,
                   ret |-> MaskReturn(variant, masked_email, email_id, entity_map),
                   map |-> entity_map]
       IN /\ store' = WriteFile(store, name, entity_map)
          /\ lastBuilt' = [i \in DOMAIN lastBuilt \cup {email_id} |->
                              IF i = email_id THEN entity_map ELSE lastBuilt[i]]
          /\ maskRet' = Some(ret)
          /\ firstRet' = IF firstRet = None THEN Some(ret) ELSE firstRet
    /\ pc' = "idle"
    /\ UNCHANGED <<variant, email_text, email_id, id_arg, doc_ents, entities_to_mask,
                   protected_phrases, idx, masked_spans, entity_map, masked_email, trace,
                   generated, origin, unmaskRet, calls>>
    /\ UNCHANGED <<handles, dumped>>

\* UnmaskApp, were a mapping stored under the identifier preferred to the argument
UnmaskAppStoredFirst(st, masked, id, map) ==
    LET name == get_mapping_filename("app", id[1])
        load == id # None /\ (map = None \/ FileExists(st, name))
        used == IF load
                THEN IF FileExists(st, name) THEN Some(JsonLoad(st[name])) ELSE None
                ELSE map
    IN IF load /\ ~FileExists(st, name)
       THEN [ret |-> <<MappingNotFoundText(name), None>>, loaded |-> TRUE, raised |-> FALSE]
       ELSE IF load /\ ~JsonValid(st[name])
       THEN [ret |-> <<>>, loaded |-> TRUE, raised |-> TRUE]
       ELSE IF used = None
       THEN [ret |-> <<NoMappingText, None>>, loaded |-> load, raised |-> FALSE]
       ELSE [ret |-> <<Restore(masked, used[1]), used>>, loaded |-> load, raised |-> FALSE]

\* unmask_email(masked_email, email_id=None, entity_map=None) of src/app.py:
\* [ret, loaded, raised]: the value returned, whether the store was read, and
\* whether json.load raised JSONDecodeError instead of a value being returned
UnmaskApp(st, masked, id, map) ==
    LET name == get_mapping_filename("app", id[1])
        load == map = None /\ id # None
        used == IF load
                THEN IF FileExists(st, name) THEN Some(JsonLoad(st[name])) ELSE None
                ELSE map
    IN IF load /\ ~FileExists(st, name)
       THEN [ret |-> <<MappingNotFoundText(name), None>>, loaded |-> TRUE, raised |-> FALSE]
       ELSE IF load /\ ~JsonValid(st[name])
       THEN [ret |-> <<>>, loaded |-> TRUE, raised |-> TRUE]
       ELSE IF used = None
       THEN [ret |-> <<NoMappingText, None>>, loaded |-> load, raised |-> FALSE]
       ELSE [ret |-> <<Restore(masked, used[1]), used>>, loaded |-> load, raised |-> FALSE]

\* unmask_email(masked_email, email_id) of src/mask.py
UnmaskCli(st, masked, id) ==
    LET name == get_mapping_filename("cli", id)
    IN IF ~FileExists(st, name)
       THEN [ret |-> MappingNotFoundText(name), loaded |-> TRUE, raised |-> FALSE]
       ELSE IF ~JsonValid(st[name])
       THEN [ret |-> <<>>, loaded |-> TRUE, raised |-> TRUE]
       ELSE [ret |-> Restore(masked, JsonLoad(st[name])), loaded |-> TRUE,
             raised |-> FALSE]

\* a call of unmask_email
Unmask(masked, id, map) ==
    /\ pc = "idle"
    /\ LET r == IF variant = "app" THEN UnmaskApp(store, masked, id, map)
                ELSE UnmaskCli(store, masked, id[1])
       IN unmaskRet' = Some([args |-> <<masked, id, map>>, ret |-> r.ret,
                             loaded |-> r.loaded, raised |-> r.raised,
                             before |-> store])
    /\ pc' = "unmasked"
    /\ UNCHANGED <<variant, store, email_text, email_id, id_arg, doc_ents,
                   entities_to_mask, protected_phrases, idx, masked_spans, entity_map,
                   masked_email, trace, generated, origin, maskRet, firstRet, lastBuilt,
                   calls>>
    /\ UNCHANGED <<handles, dumped>>

\* the caller has taken unmask_email's result
UnmaskReturn ==
    /\ pc = "unmasked"
    /\ pc' = "idle"
    /\ unmaskRet' = None
    /\ UNCHANGED <<variant, store, email_text, email_id, id_arg, doc_ents,
                   entities_to_mask, protected_phrases, idx, masked_spans, entity_map,
                   masked_email, trace, generated, origin, maskRet, firstRet, lastBuilt,
                   calls>>
    /\ UNCHANGED <<handles, dumped>>

\* the texts unmask_email is called with: the last masked text, and the message
\* unmask_email returns for an identifier without a mapping
UnmaskTexts ==
    (IF maskRet = None THEN {} ELSE {maskRet[1].ret[1]})
        \cup {MappingNotFoundText(get_mapping_filename(variant, <<"a">>))}
\* the identifiers it is called with
UnmaskIds ==
    (IF variant = "app" THEN {None} ELSE {}) \cup {Some(id) : id \in Ids}
        \cup (IF maskRet = None THEN {} ELSE {Some(maskRet[1].ret[2])})
\* the maps it is called with (src/app.py only)
UnmaskMaps ==
    IF variant = "cli" THEN {None}
    ELSE {None} \cup (IF maskRet = None THEN {} ELSE {Some(maskRet[1].map)})
             \cup (IF firstRet = None THEN {} ELSE {Some(firstRet[1].map)})

\* the passes of a run, up to the save
ComputeSteps ==
    \/ ResolveStep
    \/ EmailStep
    \/ PhoneStep
    \/ UrlStep
    \/ AttachmentStep

\* the steps of a running mask_email
MaskSteps ==
    \/ ComputeSteps
    \/ SaveStep

UnmaskCalls ==
    \/ \E masked \in UnmaskTexts, id \in UnmaskIds, map \in UnmaskMaps :
          Unmask(masked, id, map)
    \/ UnmaskReturn

\* One mask_email run on any document and recognizer output, and the
\* unmask_email calls after it.
Next ==
    \/ /\ calls = 0
       /\ \E text \in Docs, id \in IdArgs :
             \E ents \in RecOutputs(text, RecLabels, MaxEnts) : MaskStart(text, id, ents)
    \/ MaskSteps
    \/ UnmaskCalls

Spec == Init /\ [][Next]_vars

\* Sequences of mask_email and unmask_email calls, on fewer inputs.
SeqDocs == {DocEmpty, DocDear, DocEmails}
SeqIdArgs == {None, Some(<<"a">>)}
NextSeq ==
    \/ /\ calls < MaxCalls
       /\ \E text \in SeqDocs, id \in SeqIdArgs :
             \E ents \in RecOutputs(text, {"PERSON"}, 1) : MaskStart(text, id, ents)
    \/ MaskSteps
    \/ UnmaskCalls

SpecSeq == Init /\ [][NextSeq]_vars

\* Runs of mask_email in concurrent threads (Streamlit serves every session in
\* a thread of its own), all with one identifier.  The passes of a run touch
\* only its locals, so they are taken without interleaving; the save is split
\* where the threads can interleave: open(name, "w") truncates the file, then
\* json.dump fills the file object's buffer (the maps here are far shorter
\* than io.DEFAULT_BUFFER_SIZE), and leaving the with block writes the buffer
\* in one write at the file object's own offset 0.  Nothing locks the file and
\* nothing renames a finished file into place.  unmask_email calls read the
\* file at any moment in between.
ConcDocs == {DocEmpty, DocDear, DocEmails}
ConcId == Some(<<"a">>)

\* with open(filename, "w") as f: json.dump(entity_map, f, indent=4), up to the
\* end of the with block
OpenStep ==
    /\ pc = "save"
    /\ LET name == get_mapping_filename(variant, email_id)
           ret == [args |-> <<email_text, id_arg, doc_ents>>,
                   ret |-> MaskReturn(variant, masked_email, email_id, entity_map),
                   map |-> entity_map]
       IN /\ store' = [n \in DOMAIN store \cup {name} |->
                          IF n = name THEN <<>> ELSE store[n]]
          /\ handles' = Append(handles, [name |-> name, id |-> email_id,
                                         data |-> JsonDump(entity_map), ret |-> ret])
          /\ dumped' = Append(dumped, JsonDump(entity_map))
    /\ pc' = "idle"
    /\ UNCHANGED <<variant, email_text, email_id, id_arg, doc_ents, entities_to_mask,
                   protected_phrases, idx, masked_spans, entity_map, masked_email, trace,
                   generated, origin, maskRet, unmaskRet, firstRet, lastBuilt, calls>>

\* write(2) of data at offset 0 of a file that holds content
WriteAt(content, data) == data \o SubSeq(content, Len(data) + 1, Len(content))

\* the end of the with block of the k-th open file, and the run's return
CloseStep(k) ==
    /\ pc = "idle"
    /\ k \in 1..Len(handles)
    /\ LET h == handles[k]
       IN /\ store' = [store EXCEPT ![h.name] = WriteAt(@, h.data)]
          /\ lastBuilt' = [i \in DOMAIN lastBuilt \cup {h.id} |->
                              IF i = h.id THEN h.ret.map ELSE lastBuilt[i]]
          /\ maskRet' = Some(h.ret)
          /\ firstRet' = IF firstRet = None THEN Some(h.ret) ELSE firstRet
    /\ handles' = SubSeq(handles, 1, k - 1) \o SubSeq(handles, k + 1, Len(handles))
    /\ UNCHANGED <<variant, pc, email_text, email_id, id_arg, doc_ents, entities_to_mask,
                   protected_phrases, idx, masked_spans, entity_map, masked_email, trace,
                   generated, origin, unmaskRet, calls, dumped>>

NextConc ==
    \/ /\ calls < MaxCalls
       /\ \E text \in ConcDocs :
             \E ents \in RecOutputs(text, {"PERSON"}, 1) : MaskStart(text, ConcId, ents)
    \/ ComputeSteps
    \/ OpenStep
    \/ \E k \in 1..Len(handles) : CloseStep(k)
    \/ UnmaskCalls

SpecConc == Init /\ [][NextConc]_vars

(***************************************************************************)
(* Properties                                                              *)
(***************************************************************************)
\* two candidates' intervals overlap
CandOverlap(a, b) == Start(a) < End(b) /\ End(a) > Start(b)
\* the candidates the resolver loop accepted before its i-th
AcceptedBefore(i) == {k \in 1..(i - 1) : trace[k].outcome = "accepted"}
Accepted == AcceptedBefore(Len(trace) + 1)
\* a mask_email call has returned and nothing was called since
MaskDone == pc = "idle" /\ maskRet # None

\* C1: unmasking the masked text with the entity map of the same mask_email call
\* (handed over in src/app.py, loaded under the call's identifier in src/mask.py)
\* gives back the document, when the texts masked (those of the accepted spans,
\* and those the pattern passes found) are pairwise distinct, none of them
\* contained in another or in a generated placeholder
C1_Precondition ==
    LET m == maskRet[1].map
    IN /\ \A i, j \in 1..Len(m) :
             i # j => m[i][2] # m[j][2] /\ ~Contains(m[j][2], m[i][2])
       /\ \A i, k \in 1..Len(m) : ~Contains(m[k][1], m[i][2])
\* unmask_email has just been called on what the last mask_email call gave
UnmaskOfMask ==
    /\ pc = "unmasked" /\ maskRet # None
    /\ unmaskRet[1].args[1] = maskRet[1].ret[1]
    /\ IF variant = "app" THEN unmaskRet[1].args[3] = Some(maskRet[1].map)
       ELSE unmaskRet[1].args[2] = Some(maskRet[1].ret[2])
\* the text unmask_email returned
UnmaskedText == IF variant = "app" THEN unmaskRet[1].ret[1] ELSE unmaskRet[1].ret
C1_RoundTrip == (UnmaskOfMask /\ C1_Precondition) => UnmaskedText = maskRet[1].args[1]

\* C2: at every step of the resolver loop no two spans in masked_spans overlap,
\* under the test start < s_end and end > s_start
C2_NonOverlap ==
    \A i, j \in 1..Len(masked_spans) :
       i # j => ~(/\ masked_spans[i][1] < masked_spans[j][2]
                  /\ masked_spans[i][2] > masked_spans[j][1])
\* two spans are accepted and a candidate was rejected for overlapping one
C2_Witness ==
    /\ Len(masked_spans) >= 2
    /\ \E k \in 1..Len(trace) : trace[k].outcome = "overlap"

\* C3: of two overlapping candidates with texts of different lengths, the longer,
\* if not protected and clear of the spans accepted before it, is accepted and the
\* shorter rejected; a candidate rejected for overlap overlaps an accepted span
\* whose text is at least as long
C3_LongestFirst ==
    /\ \A i, j \in 1..Len(trace) :
          (/\ CandOverlap(trace[i].cand, trace[j].cand)
           /\ Len(Text(trace[i].cand)) > Len(Text(trace[j].cand))
           /\ Text(trace[i].cand) \notin protected_phrases
           /\ \A k \in AcceptedBefore(i) : ~CandOverlap(trace[i].cand, trace[k].cand))
          => trace[i].outcome = "accepted" /\ trace[j].outcome = "overlap"
    /\ \A j \in 1..Len(trace) :
          trace[j].outcome = "overlap"
          => \E k \in AcceptedBefore(j) :
                /\ CandOverlap(trace[j].cand, trace[k].cand)
                /\ Len(Text(trace[k].cand)) >= Len(Text(trace[j].cand))
\* a shorter candidate was rejected for overlapping a longer, accepted one
C3_Witness ==
    \E i, j \in 1..Len(trace) :
       /\ trace[i].outcome = "accepted" /\ trace[j].outcome = "overlap"
       /\ CandOverlap(trace[i].cand, trace[j].cand)
       /\ Len(Text(trace[i].cand)) > Len(Text(trace[j].cand))

\* C4: unmask_email called without a map and with an identifier that has no stored
\* mapping returns a MappingNotFound outcome the caller can tell from a restored
\* text, not an empty string, and leaves the store as it was
MissingMapping(u) ==
    /\ u.args[3] = None /\ u.args[2] # None
    /\ ~FileExists(u.before, get_mapping_filename(variant, u.args[2][1]))
\* a mapping was found or given, and applied
Restored(u) ==
    \/ u.args[3] # None
    \/ u.args[2] # None /\ FileExists(u.before, get_mapping_filename(variant, u.args[2][1]))
\* what the caller can test on the value returned
LooksNotFound(u) ==
    LET msg == MappingNotFoundText(get_mapping_filename(variant, u.args[2][1]))
    IN IF variant = "app" THEN u.ret[2] = None /\ u.ret[1] = msg ELSE u.ret = msg
C4_MappingNotFound ==
    pc = "unmasked" =>
       /\ MissingMapping(unmaskRet[1])
          => /\ LooksNotFound(unmaskRet[1])
             /\ UnmaskedText # <<>>
             /\ store = unmaskRet[1].before
       /\ (Restored(unmaskRet[1]) /\ unmaskRet[1].args[2] # None)
          => ~LooksNotFound(unmaskRet[1])

\* C5: mask_email does not return a masked text and entity map for a document that
\* contains a string equal to a placeholder it generates for that document
C5_CollisionReported ==
    ~(MaskDone /\ \E k \in 1..Len(generated) : Contains(email_text, generated[k]))

\* C6: no character of a signature-marker match in the document is replaced by a
\* placeholder in the masked text
C6_ProtectedKept ==
    (variant = "app" /\ MaskDone) =>
       \A p \in 1..Len(signature_markers) :
          LET ms == FindIter(signature_markers[p], email_text)
          IN \A n \in 1..Len(ms) :
                \A k \in (ms[n].start + 1)..ms[n].end : k \in Range(origin)

\* C7: within one mask_email run every placeholder generated differs from those
\* generated before it, and the map has one entry per generated placeholder
C7_UniquePlaceholders ==
    /\ \A i, j \in 1..Len(generated) : i # j => generated[i] # generated[j]
    /\ Len(entity_map) = Len(generated)
    /\ Keys(entity_map) = generated
\* a run is over that generated placeholders for recognizer spans and in a
\* pattern pass
C7_Witness ==
    /\ MaskDone
    /\ Len(masked_spans) >= 1
    /\ Len(generated) > Len(masked_spans)

\* C8: a mask_email call with the document, identifier argument and recognizer
\* output of an earlier call returns what that call returned, and builds the same
\* entity map in the same order, whatever the store holds
C8_Deterministic ==
    (maskRet # None /\ maskRet[1].args = firstRet[1].args)
    => maskRet[1].ret = firstRet[1].ret /\ maskRet[1].map = firstRet[1].map
\* a second call with the arguments of the first is over; the first found no
\* mapping file of its identifier, the second the one the first wrote
C8_Witness ==
    /\ MaskDone /\ calls = 2
    /\ maskRet[1].args = firstRet[1].args
    /\ maskRet[1].map # <<>>

\* C9: unmask_email called with an entity_map returns the text restored with that
\* map, and the map, without reading the store
C9_ExplicitMap ==
    (variant = "app" /\ pc = "unmasked" /\ unmaskRet[1].args[3] # None)
    => /\ ~unmaskRet[1].loaded
       /\ unmaskRet[1].ret = <<Restore(unmaskRet[1].args[1], unmaskRet[1].args[3][1]),
                               unmaskRet[1].args[3]>>
       /\ store = unmaskRet[1].before
\* the call had an identifier with another mapping stored, and the map given
\* restored something
C9_Witness ==
    /\ variant = "app" /\ pc = "unmasked"
    /\ unmaskRet[1].args[3] # None /\ unmaskRet[1].args[2] # None
    /\ FileExists(store, get_mapping_filename("app", unmaskRet[1].args[2][1]))
    /\ JsonLoad(store[get_mapping_filename("app", unmaskRet[1].args[2][1])])
          # unmaskRet[1].args[3][1]
    /\ unmaskRet[1].ret[1] # unmaskRet[1].args[1]

\* C10: the mapping stored under an identifier has the keys and values of the map
\* built by the latest mask_email call with that identifier, whatever calls of
\* unmask_email and of mask_email with other identifiers came after it
C10_StoreLatest ==
    \A id \in DOMAIN lastBuilt :
       /\ FileExists(store, get_mapping_filename(variant, id))
       /\ Range(JsonLoad(store[get_mapping_filename(variant, id)])) = Range(lastBuilt[id])
\* a call overwrote the non-empty mapping an earlier call had saved under its
\* identifier, and unmask_email was called after it
C10_Witness ==
    /\ pc = "unmasked" /\ calls = 2
    /\ maskRet[1].ret[2] = firstRet[1].ret[2]
    /\ firstRet[1].map # <<>>
    /\ Range(maskRet[1].map) # Range(firstRet[1].map)

\* C12: the e-mail, phone, URL and attachment patterns are evaluated against the
\* document, not against the working copy: the map holds, under the keys of each
\* pattern, what the pattern finds in the document, and every value of the map is
\* a substring of the document
\* the map has the texts found, in order, under the keys Key(1), Key(2), ..., and
\* no further key of that kind
DetectedAs(found, Key(_)) ==
    \A i \in 1..(Len(found) + 1) :
       IF i <= Len(found)
       THEN HasKey(entity_map, Key(i)) /\ Get(entity_map, Key(i)) = found[i]
       ELSE ~HasKey(entity_map, Key(i))
C12_ScanOriginal ==
    MaskDone =>
       /\ LET Key(i) == Placeholder1("EMAIL", i)
          IN DetectedAs(FindAll(email_pattern, email_text), Key)
       /\ \A p \in 1..Len(phone_patterns) :
             LET Key(j) == Placeholder2("PHONE", p - 1, j)
             IN DetectedAs(FindAll(phone_patterns[p], email_text), Key)
       /\ LET Key(i) == Placeholder1("URL", i)
          IN DetectedAs(FindAll(url_pattern, email_text), Key)
       /\ \A k \in 1..Len(entity_map) : Contains(email_text, entity_map[k][2])

\* C13: every candidate (text, start, end, label) in entities_to_mask has
\* 0 <= start < end <= len(email_text) and text = email_text[start:end]
C13_SpanValid ==
    \A i \in 1..Len(entities_to_mask) :
       /\ 0 <= Start(entities_to_mask[i])
       /\ Start(entities_to_mask[i]) < End(entities_to_mask[i])
       /\ End(entities_to_mask[i]) <= Len(email_text)
       /\ Text(entities_to_mask[i])
             = Slice(email_text, Start(entities_to_mask[i]), End(entities_to_mask[i]))

\* the place of the i-th candidate of the loop among the accepted ones
Rank(i) == Cardinality(AcceptedBefore(i)) + 1
\* the k-th span accepted got the number k, whatever its label, and is the k-th
\* entry of the map
OneCounter ==
    \A i \in Accepted :
       /\ Rank(i) <= Len(entity_map)
       /\ entity_map[Rank(i)]
             = <<Placeholder1(Label(trace[i].cand), Rank(i)), Text(trace[i].cand)>>

PlaceholderShape ==
    Cat(Lit(<<"[">>),
        Cat(Run(UpperSet, 1, -1),
            Cat(Plus(Cat(Lit(<<"_">>), Run(DigitSet, 1, -1))), Lit(<<"]">>))))
\* the placeholders that occur in a text
PlaceholdersIn(text) == Range(FindAll(PlaceholderShape, text))

\* C15: for a document without placeholder-shaped text, the placeholders that
\* occur in the masked text returned are the keys of the entity map
C15_KeysInText ==
    (MaskDone /\ PlaceholdersIn(email_text) = {})
    => PlaceholdersIn(masked_email) = Range(Keys(entity_map))

\* the mapping file of the identifier the concurrent runs share
ConcFile == get_mapping_filename(variant, ConcId[1])
\* two runs have saved and no mapping file is open any more
BothFinished == Len(dumped) = 2 /\ handles = <<>>
\* an unmask_email call has read the mapping file while a run had it open
LoadDuringRuns ==
    /\ pc = "unmasked"
    /\ unmaskRet[1].loaded
    /\ unmaskRet[1].args[2] = ConcId
    /\ handles # <<>>

\* C11: when two mask_email runs with the same identifier run concurrently,
\* then after both have finished the mapping file holds the complete map of
\* exactly one of them (the text one of the two json.dump calls produced),
\* and a load while a run has the file open reads a complete map too: it does
\* not fail on the text it finds, and that text is what one of the runs dumped.
C11_LastWriterWins ==
    /\ BothFinished => \E k \in 1..2 : store[ConcFile] = dumped[k]
    /\ LoadDuringRuns =>
          /\ ~unmaskRet[1].raised
          /\ \E k \in 1..Len(dumped) : unmaskRet[1].before[ConcFile] = dumped[k]

=============================================================================
